---- MODULE Spec2Model ----
(***************************************************************************)
(* Model of src/server.js (the running copy, lines 157-336): the product   *)
(* catalog routes, POST /cart and POST /cart/purchase, over the products   *)
(* and carts collections of the document store.                            *)
(*                                                                         *)
(* Every store call (find, save, findByIdAndUpdate, deleteMany, ...) is    *)
(* one atomic round trip.  A handler is suspended at each await, so each   *)
(* action below is one store call together with the synchronous code that  *)
(* runs before it in the handler.  Requests are served in Slots, so up to  *)
(* two handlers are in flight and interleave at the awaits.                *)
(***************************************************************************)
EXTENDS Integers, Sequences, FiniteSets, TLC

VARIABLES
    products,       \* Product collection: _id -> [name, price, stock]
    cart,           \* Cart collection in insertion order: <<[id, userId, productId, quantity]>>
    nextProductId,  \* next fresh Product _id
    nextCartId,     \* next fresh Cart _id
    req,            \* per slot: the handler in flight, its position and its locals
    started,        \* number of requests received so far
    last,           \* the cart request that finished most recently, and its response
    settled,        \* history: per product, total quantity of the lines removed by checkouts
    hist            \* history: "serial" | "overlap" | "mixed" | "dirty" (see Overlapped, Dirty)

vars == <<products, cart, nextProductId, nextCartId, req, started, last, settled, hist>>

----------------------------------------------------------------------------
(* Bounds of the model *)

MaxRequests == 4
MaxProducts == 3

Slots == {1, 2}
ProductIds == 1..MaxProducts

\* request inputs
EmptyId == 0                          \* productId "" in the request body
UserInputs == {"", "u1", "u2"}
\* POST /cart bodies: the well-formed ones, and one per malformed field
AddInputs ==
    { [userId |-> u, productId |-> p, quantity |-> q] :
          u \in {"u1", "u2"}, p \in {1, 2}, q \in {30} }
      \cup { [userId |-> "",   productId |-> 1,       quantity |-> 1],
             [userId |-> "u1", productId |-> EmptyId, quantity |-> 1],
             [userId |-> "u1", productId |-> 1,       quantity |-> 0],
             [userId |-> "u1", productId |-> 1,       quantity |-> -1] }

\* a JSON value sent for a numeric field: an integer, a fraction or other text
Int_(v) == [kind |-> "int", val |-> v]
Frac(v) == [kind |-> "frac", val |-> v]     \* v + 1/2
Text == [kind |-> "text", val |-> 0]

BodyInputs ==
    { [name |-> "N", price |-> Int_(5), stock |-> Int_(1)],
      [name |-> "",  price |-> Int_(5), stock |-> Int_(2)],
             [name |-> "N", price |-> Text,    stock |-> Int_(2)],
             [name |-> "N", price |-> Int_(5), stock |-> Int_(-1)],
             [name |-> "N", price |-> Int_(5), stock |-> Frac(1)] }

NoBody == [name |-> "", price |-> Text, stock |-> Text]

----------------------------------------------------------------------------
(* The store and the pure pieces of the handlers *)

\* dummyProducts: the products seeded on connection open
dummyProducts ==
    (1 :> [name |-> "Product A", price |-> 10, stock |-> 100]) @@
    (2 :> [name |-> "Product B", price |-> 20, stock |-> 50])

\* the result of a find that matched nothing (null)
NoProduct == [id |-> 0, name |-> "", price |-> 0, stock |-> 0]

\* Product.findById(id): the document, or null
FindById(P, id) ==
    IF id \in DOMAIN P
    THEN [id |-> id, name |-> P[id].name, price |-> P[id].price, stock |-> P[id].stock]
    ELSE NoProduct

\* body('name').notEmpty()
NotEmpty(s) == s # ""
\* body('price').isNumeric()
IsNumeric(x) == x.kind \in {"int", "frac"}
\* body(...).isInt({ min })
IsInt(x, min) == x.kind = "int" /\ x.val >= min

\* the validators of POST /products and PUT /products/:id with validationResult(req)
ValidProductBody(b) ==
    /\ NotEmpty(b.name)
    /\ IsNumeric(b.price)
    /\ IsInt(b.stock, 0)

\* the document a validated body is cast to
CastProduct(b) == [name |-> b.name, price |-> b.price.val, stock |-> b.stock.val]

\* new Product(req.body).save()
InsertProduct(P, id, b) == (id :> CastProduct(b)) @@ P

\* faulty variant: the update inserts the document when nothing matches (upsert)
FindByIdAndUpdate_Upsert(P, id, b) == (id :> CastProduct(b)) @@ P

\* Product.findByIdAndUpdate(id, req.body): sets the body's fields on the match
FindByIdAndUpdate(P, id, b) ==
    IF id \in DOMAIN P THEN [P EXCEPT ![id] = CastProduct(b)] ELSE P

\* faulty variant: the delete's filter matches every product
FindByIdAndDelete_All(P, id) == [i \in {} |-> P[i]]

\* Product.findByIdAndDelete(id)
FindByIdAndDelete(P, id) == [i \in DOMAIN P \ {id} |-> P[i]]

\* faulty variant: only the missing product is rejected
AddRejects_NullOnly(product, quantity) == product = NoProduct

\* POST /cart: if (!product || product.stock < quantity)
AddRejects(product, quantity) ==
    product = NoProduct \/ product.stock < quantity

\* new Cart({ userId, productId, quantity }).save()
InsertCartLine(C, id, userId, productId, quantity) ==
    Append(C, [id |-> id, userId |-> userId, productId |-> productId,
               quantity |-> quantity])

\* faulty variant: the find's filter matches every user's lines
CartFind_All(C, userId) == C

\* Cart.find({ userId })
CartFind(C, userId) == SelectSeq(C, LAMBDA l : l.userId = userId)

\* faulty variant: the bulk delete's filter matches every user's lines
CartDeleteMany_All(C, userId) == <<>>

\* Cart.deleteMany({ userId })
CartDeleteMany(C, userId) == SelectSeq(C, LAMBDA l : l.userId # userId)

\* faulty variant: the stock is not compared with the quantity
StockSufficient_NoCheck(product, quantity) == product # NoProduct

\* POST /cart/purchase: if (product && product.stock >= item.quantity)
StockSufficient(product, quantity) ==
    product # NoProduct /\ product.stock >= quantity

\* faulty variant: the quantity is added
Decrement_Adds(product, quantity) == [product EXCEPT !.stock = @ + quantity]

\* product.stock -= item.quantity
Decrement(product, quantity) == [product EXCEPT !.stock = @ - quantity]

\* faulty variant: the decremented document is never written back
SaveProduct_Skipped(P, product) == P

\* product.save(): writes the modified path (stock) of the loaded document
SaveProduct(P, product) ==
    IF product.id \in DOMAIN P
    THEN [P EXCEPT ![product.id].stock = product.stock]
    ELSE P

----------------------------------------------------------------------------
(* Requests *)

Idle == [pc |-> "idle", userId |-> "", productId |-> 0, quantity |-> 0,
         items |-> <<>>, idx |-> 0, product |-> NoProduct,
         alone |-> FALSE, products0 |-> <<>>, cart0 |-> <<>>]

InFlight(r) == req[r].pc # "idle"
CanStart == started < MaxRequests
\* a received request is served in the first free slot
FreeSlot(r) == ~InFlight(r) /\ \A s \in Slots : s < r => InFlight(s)

\* the response of a finished request; resp "none": the handler threw, nothing was sent
Finished(op, resp) == [op |-> op, resp |-> resp]

\* history bookkeeping: another request acted while the handlers in flight were suspended
Disturb(R) ==
    [s \in Slots |->
        IF R[s].pc # "idle"
        THEN [R[s] EXCEPT !.alone = FALSE, !.products0 = <<>>, !.cart0 = <<>>]
        ELSE R[s]]

NoSettled == [p \in DOMAIN dummyProducts |-> 0]

\* hist after a cart request was received: "overlap" once two checkouts have been in
\* flight together, "mixed" once a checkout and a POST /cart have
Overlapped(purchase) ==
    LET adds == \E s \in Slots : req[s].pc = "add"
        purchases == \E s \in Slots : InFlight(s) /\ req[s].pc # "add"
    IN  IF hist \in {"mixed", "dirty"} THEN hist
        ELSE IF (purchase /\ adds) \/ (~purchase /\ purchases) THEN "mixed"
        ELSE IF purchase /\ purchases THEN "overlap"
        ELSE hist

Init ==
    /\ products = dummyProducts
    /\ cart = <<>>
    /\ nextProductId = 3
    /\ nextCartId = 1
    /\ req = [s \in Slots |-> Idle]
    /\ started = 0
    /\ last = Finished("none", "none")
    /\ settled = NoSettled
    /\ hist = "serial"

\* a cart line as the validators of POST /cart describe it
WellFormed(l) == l.userId # "" /\ l.productId # EmptyId /\ l.quantity >= 1

\* a catalog write, a failed checkout or a stored line that is not well-formed ends
\* the stock accounting of settled/hist
Dirty ==
    /\ hist' = "dirty"
    /\ settled' = NoSettled

\* sum of the quantities of the lines of C that reference product p
RECURSIVE SumQuantity(_, _)
SumQuantity(C, p) ==
    IF C = <<>> THEN 0
    ELSE (IF Head(C).productId = p THEN Head(C).quantity ELSE 0) + SumQuantity(Tail(C), p)

\* a newly received request in slot r: its locals, and the history snapshot
Receive(r, pc, userId, productId, quantity, items, product) ==
    LET quiet == \A s \in Slots : ~InFlight(s)
    IN  [Disturb(req) EXCEPT ![r] =
            [pc |-> pc, userId |-> userId, productId |-> productId,
             quantity |-> quantity, items |-> items, idx |-> 1, product |-> product,
             alone |-> quiet,
             products0 |-> IF quiet THEN products ELSE <<>>,
             cart0 |-> IF quiet THEN cart ELSE <<>>]]

\* POST /products: the store it leaves and the response it sends
CreateHandler(P, id, b) ==
    IF ~ValidProductBody(b)
    THEN [products |-> P, resp |-> "400"]
    ELSE [products |-> InsertProduct(P, id, b), resp |-> "200"]

\* PUT /products/:id: the store it leaves and the response it sends
UpdateHandler(P, id, b) ==
    IF ~ValidProductBody(b)
    THEN [products |-> P, resp |-> "400"]
    ELSE IF FindById(P, id) = NoProduct
         THEN [products |-> FindByIdAndUpdate(P, id, b), resp |-> "404"]
         ELSE [products |-> FindByIdAndUpdate(P, id, b), resp |-> "200"]

\* DELETE /products/:id: the store it leaves and the response it sends
DeleteHandler(P, id) ==
    [products |-> FindByIdAndDelete(P, id), resp |-> "200"]

\* a catalog request: one store call, so one step from receipt to response
Catalog(out) ==
    /\ CanStart
    /\ started' = started + 1
    /\ req' = Disturb(req)
    /\ products' = out.products
    /\ IF out.products # products THEN Dirty
       ELSE UNCHANGED <<hist, settled>>
    /\ UNCHANGED <<cart, nextCartId, last>>

CreateProduct(b) ==
    /\ ValidProductBody(b) => nextProductId <= MaxProducts
    /\ Catalog(CreateHandler(products, nextProductId, b))
    /\ nextProductId' = IF ValidProductBody(b) THEN nextProductId + 1 ELSE nextProductId

UpdateProduct(id, b) ==
    /\ Catalog(UpdateHandler(products, id, b))
    /\ UNCHANGED nextProductId

DeleteProduct(id) ==
    /\ Catalog(DeleteHandler(products, id))
    /\ UNCHANGED nextProductId

\* POST /cart up to `await Product.findById(productId)`; the validators' result is
\* never read.  A productId that is no ObjectId makes the find throw (CastError) or
\* match nothing, depending on the store client.
AddToCartFind(r, userId, productId, quantity) ==
    /\ CanStart
    /\ FreeSlot(r)
    /\ started' = started + 1
    /\ hist' = Overlapped(FALSE)
    /\ \/ /\ req' = Receive(r, "add", userId, productId, quantity, <<>>,
                            FindById(products, productId))
          /\ UNCHANGED last
       \/ /\ productId = EmptyId
          /\ req' = Disturb(req)
          /\ last' = Finished("add", "none")
    /\ UNCHANGED <<products, cart, nextProductId, nextCartId, settled>>

\* POST /cart from the stock check to the response
AddToCartSave(r) ==
    /\ req[r].pc = "add"
    /\ IF AddRejects(req[r].product, req[r].quantity)
       THEN /\ last' = Finished("add", "400")
            /\ UNCHANGED <<cart, nextCartId>>
       ELSE /\ cart' = InsertCartLine(cart, nextCartId, req[r].userId,
                                      req[r].productId, req[r].quantity)
            /\ nextCartId' = nextCartId + 1
            /\ last' = Finished("add", "200")
    /\ IF AddRejects(req[r].product, req[r].quantity) \/ WellFormed(req[r])
       THEN UNCHANGED <<settled, hist>>
       ELSE Dirty
    /\ req' = [req EXCEPT ![r] = Idle]
    /\ UNCHANGED <<products, nextProductId, started>>

\* POST /cart/purchase up to `await Cart.find({ userId })`
PurchaseFetch(r, userId) ==
    /\ CanStart
    /\ FreeSlot(r)
    /\ started' = started + 1
    /\ hist' = Overlapped(TRUE)
    /\ LET items == CartFind(cart, userId)
       IN  req' = Receive(r, IF items = <<>> THEN "clear" ELSE "find",
                          userId, 0, 0, items, NoProduct)
    /\ UNCHANGED <<products, cart, nextProductId, nextCartId, last, settled>>

\* one turn of the loop: `await Product.findById(item.productId)` and the stock check
PurchaseFind(r) ==
    /\ req[r].pc = "find"
    /\ LET item == req[r].items[req[r].idx]
           product == FindById(products, item.productId)
       IN  IF StockSufficient(product, item.quantity)
           THEN /\ req' = [req EXCEPT ![r].pc = "save",
                                      ![r].product = Decrement(product, item.quantity)]
                /\ UNCHANGED <<last, settled, hist>>
           ELSE \* product.name of null throws: no response is sent
                /\ last' = Finished("purchase", IF product = NoProduct THEN "none" ELSE "400")
                /\ req' = [req EXCEPT ![r] = Idle]
                /\ Dirty
    /\ UNCHANGED <<products, cart, nextProductId, nextCartId, started>>

\* `await product.save()` and the step to the next line
PurchaseSave(r) ==
    /\ req[r].pc = "save"
    /\ products' = SaveProduct(products, req[r].product)
    /\ \/ /\ req' = [req EXCEPT ![r].idx = @ + 1,
                                ![r].pc = IF req[r].idx = Len(req[r].items)
                                          THEN "clear" ELSE "find"]
          /\ UNCHANGED <<last, settled, hist>>
       \/ \* the document was deleted meanwhile: save may throw DocumentNotFoundError
          /\ req[r].product.id \notin DOMAIN products
          /\ last' = Finished("purchase", "none")
          /\ req' = [req EXCEPT ![r] = Idle]
          /\ Dirty
    /\ UNCHANGED <<cart, nextProductId, nextCartId, started>>

\* `await Cart.deleteMany({ userId })` and the response
PurchaseClear(r) ==
    /\ req[r].pc = "clear"
    /\ cart' = CartDeleteMany(cart, req[r].userId)
    /\ last' = Finished("purchase", "200")
    /\ settled' = IF hist = "dirty" THEN settled
                  ELSE [p \in DOMAIN settled |->
                          settled[p] + SumQuantity(CartFind(cart, req[r].userId), p)]
    /\ req' = [req EXCEPT ![r] = Idle]
    /\ UNCHANGED <<products, nextProductId, nextCartId, started, hist>>

Next ==
    \/ \E b \in BodyInputs : CreateProduct(b)
    \/ \E id \in ProductIds, b \in BodyInputs : UpdateProduct(id, b)
    \/ \E id \in ProductIds : DeleteProduct(id)
    \/ \E r \in Slots, a \in AddInputs :
          AddToCartFind(r, a.userId, a.productId, a.quantity)
    \/ \E r \in Slots : AddToCartSave(r)
    \/ \E r \in Slots, u \in UserInputs : PurchaseFetch(r, u)
    \/ \E r \in Slots : PurchaseFind(r)
    \/ \E r \in Slots : PurchaseSave(r)
    \/ \E r \in Slots : PurchaseClear(r)

Spec == Init /\ [][Next]_vars

----------------------------------------------------------------------------
(* Properties *)

Range(f) == { f[i] : i \in DOMAIN f }

\* the store after the lines of `items` were settled one after the other
RECURSIVE Settle(_, _)
Settle(P, items) ==
    IF items = <<>> THEN P
    ELSE Settle([P EXCEPT ![Head(items).productId].stock = @ - Head(items).quantity],
                Tail(items))

\* slot r takes a step of its handler (its position changes)
Steps(r) == req'[r].pc # req[r].pc
\* slot r's handler ends in this step
Ends(r, pc) == req[r].pc = pc /\ req'[r].pc = "idle"

\* C1: a checkout that ran alone and passed every line's check leaves each product's
\* stock at its stock before the checkout minus the quantities of the user's lines
\* for it, removes every line of the user and leaves the other users' lines as they
\* were, and answers 200.
C1_CheckoutAlone ==
    [][\A r \in Slots :
        (Ends(r, "clear") /\ req[r].alone) =>
            LET u == req[r].userId
                before == req[r].products0
                mine == SelectSeq(req[r].cart0, LAMBDA l : l.userId = u)
            IN  /\ last' = [op |-> "purchase", resp |-> "200"]
                /\ DOMAIN products' = DOMAIN before
                /\ \A p \in DOMAIN before :
                      /\ products'[p].stock = before[p].stock - SumQuantity(mine, p)
                      /\ products'[p].name = before[p].name
                      /\ products'[p].price = before[p].price
                /\ \A i \in DOMAIN cart' : cart'[i].userId # u
                /\ cart' = SelectSeq(req[r].cart0, LAMBDA l : l.userId # u)]_vars

\* C1 witness: after one add and one checkout served one at a time, Product A went
\* from 100 to 70 and the cart is empty.
C1_Witness ==
    /\ last = [op |-> "purchase", resp |-> "200"]
    /\ hist = "serial"
    /\ nextCartId = 2
    /\ cart = <<>>
    /\ 1 \in DOMAIN products /\ products[1].stock = 70

\* C2: when the line a checkout processes finds its product with stock below the
\* line's quantity, the checkout ends at that line with 400, the step changes no
\* product and no cart line, and no later line is processed; if the checkout ran
\* alone, the decrements of the earlier lines are exactly what changed since it
\* began and every line of the user is still in the cart.
C2_CheckoutAbort ==
    [][\A r \in Slots :
        (/\ req[r].pc = "find"
         /\ Steps(r)
         /\ LET item == req[r].items[req[r].idx]
            IN  /\ item.productId \in DOMAIN products
                /\ products[item.productId].stock < item.quantity) =>
            /\ last' = [op |-> "purchase", resp |-> "400"]
            /\ req'[r].pc = "idle"
            /\ products' = products
            /\ cart' = cart
            /\ req[r].alone =>
                  /\ products' = Settle(req[r].products0,
                                        SubSeq(req[r].items, 1, req[r].idx - 1))
                  /\ cart' = req[r].cart0
                  /\ SelectSeq(cart', LAMBDA l : l.userId = req[r].userId) = req[r].items]_vars

\* C2 witness: two lines of 30 on Product B (stock 50), both accepted at add time;
\* the checkout settled the first, stopped at the second with 400, and both lines
\* are still in the cart.
C2_Witness ==
    /\ last = [op |-> "purchase", resp |-> "400"]
    /\ \A s \in Slots : ~InFlight(s)
    /\ started = 3
    /\ Len(cart) = 2
    /\ \A i \in DOMAIN cart : cart[i].productId = 2 /\ cart[i].quantity = 30
    /\ 2 \in DOMAIN products /\ products[2].stock = 20

\* slot r has persisted the decrement of a line and holds the document it saved
Saved(r) == req[r].pc \in {"find", "clear"} /\ req[r].product # NoProduct
SavedLine(r) == req[r].items[req[r].idx - 1]
\* two checkouts of different users read the same stock of product p, both passed
\* the check, both persisted, and their quantities together exceed what they read
Raced(r1, r2, p) ==
    /\ r1 # r2
    /\ Saved(r1) /\ Saved(r2)
    /\ req[r1].userId # req[r2].userId
    /\ WellFormed(SavedLine(r1)) /\ WellFormed(SavedLine(r2))
    /\ req[r1].product.id = p /\ req[r2].product.id = p
    /\ req[r1].product.stock + SavedLine(r1).quantity
         = req[r2].product.stock + SavedLine(r2).quantity
    /\ SavedLine(r1).quantity + SavedLine(r2).quantity
         > req[r1].product.stock + SavedLine(r1).quantity

\* C3 as stated: two such checkouts leave the product's stock negative.
C3_Original ==
    \A r1, r2 \in Slots : \A p \in DOMAIN products :
        Raced(r1, r2, p) => products[p].stock < 0

\* C3 amended: no product's stock is ever negative; two raced checkouts leave the
\* stock one of them computed from its own read (the other decrement is lost).
C3_StockNeverNegative ==
    /\ \A p \in DOMAIN products : products[p].stock >= 0
    /\ \A r1, r2 \in Slots : \A p \in DOMAIN products :
          (Raced(r1, r2, p) /\ hist = "overlap") =>
              products[p].stock \in {req[r1].product.stock, req[r2].product.stock}

\* C3 witness: two checkouts raced on Product B.
C3_Witness ==
    \E r1, r2 \in Slots : Raced(r1, r2, 2) /\ 2 \in DOMAIN products /\ hist = "overlap"

\* C4 as stated: every cart line has a non-empty user, a product id and a quantity
\* of at least 1.
C4_CartLinesValid ==
    \A i \in DOMAIN cart : WellFormed(cart[i])

\* C5: POST /cart with well-formed fields changes no product; it answers 400 and
\* leaves the cart alone when the product it read is missing or has less stock than
\* the quantity (which, for a request that ran alone, is the store's current stock),
\* and otherwise answers 200 and appends exactly one new line, merging nothing.
C5_AddToCart ==
    [][\A r \in Slots :
        (Ends(r, "add") /\ WellFormed(req[r])) =>
            LET read == req[r].product
                missing == IF req[r].alone
                           THEN req[r].productId \notin DOMAIN products
                           ELSE read.id = 0
                stock == IF req[r].alone /\ ~missing
                         THEN products[req[r].productId].stock
                         ELSE read.stock
                mine(C) == SelectSeq(C, LAMBDA l : l.userId = req[r].userId)
            IN  /\ products' = products
                /\ IF missing \/ stock < req[r].quantity
                   THEN /\ last' = [op |-> "add", resp |-> "400"]
                        /\ cart' = cart
                   ELSE /\ last' = [op |-> "add", resp |-> "200"]
                        /\ Len(cart') = Len(cart) + 1
                        /\ SubSeq(cart', 1, Len(cart)) = cart
                        /\ cart'[Len(cart')].userId = req[r].userId
                        /\ cart'[Len(cart')].productId = req[r].productId
                        /\ cart'[Len(cart')].quantity = req[r].quantity
                        /\ \A i \in DOMAIN cart : cart[i].id # cart'[Len(cart')].id
                        /\ Len(mine(cart')) = Len(mine(cart)) + 1]_vars

\* C5 witness: the same user added the same product and quantity twice and holds
\* two lines.
C5_Witness ==
    /\ last = [op |-> "add", resp |-> "200"]
    /\ Len(cart) = 2
    /\ cart[1].userId = cart[2].userId
    /\ cart[1].productId = cart[2].productId
    /\ cart[1].quantity = cart[2].quantity
    /\ cart[1].id # cart[2].id

\* C6 as stated: a checkout whose line references a product that is no longer in the
\* store ends at that line with 400 and leaves the cart as it is.
C6_MissingProductAnswered ==
    [][\A r \in Slots :
        (/\ req[r].pc = "find"
         /\ Steps(r)
         /\ \A i \in DOMAIN req[r].items : WellFormed(req[r].items[i])
         /\ req[r].items[req[r].idx].productId \notin DOMAIN products) =>
            /\ last' = [op |-> "purchase", resp |-> "400"]
            /\ req'[r].pc = "idle"
            /\ cart' = cart
            /\ products' = products]_vars

\* what C7 says of DELETE /products/:id in store P
DeleteContract(P) ==
    \A id \in ProductIds :
        LET once == DeleteHandler(P, id)
            twice == DeleteHandler(once.products, id)
        IN  /\ once.resp = "200"
            /\ id \notin DOMAIN once.products
            /\ DOMAIN once.products = DOMAIN P \ {id}
            /\ \A o \in DOMAIN once.products : once.products[o] = P[o]
            /\ twice.resp = "200"
            /\ twice.products = once.products

\* a product left the store in this step
ProductRemoved == DOMAIN products' # DOMAIN products /\ DOMAIN products' \subseteq DOMAIN products

\* C7: in every reachable store, delete answers 200 whether or not the id exists,
\* leaves the product absent and the other products as they were, and a second
\* delete of the same id answers 200 and changes nothing more; the step that removes
\* a product removes exactly one and changes no cart line.
C7_Delete ==
    [][/\ products' # products => DeleteContract(products) /\ DeleteContract(products')
       /\ ProductRemoved =>
             /\ cart' = cart
             /\ Cardinality(DOMAIN products \ DOMAIN products') = 1
             /\ \A o \in DOMAIN products' : products'[o] = products[o]]_vars

\* C7 witness: Product A was deleted while a cart line references it, and the line
\* is still there.
C7_Witness ==
    /\ 1 \notin DOMAIN products
    /\ 2 \in DOMAIN products
    /\ \E i \in DOMAIN cart : cart[i].productId = 1

\* what C8 says of PUT /products/:id in store P
UpdateContract(P) ==
    \A id \in ProductIds, b \in BodyInputs :
        LET out == UpdateHandler(P, id, b)
            valid == /\ b.name # ""
                     /\ b.price.kind # "text"
                     /\ b.stock.kind = "int" /\ b.stock.val >= 0
        IN  IF ~valid THEN out.resp = "400" /\ out.products = P
            ELSE IF id \notin DOMAIN P THEN out.resp = "404" /\ out.products = P
            ELSE /\ out.resp = "200"
                 /\ DOMAIN out.products = DOMAIN P
                 /\ out.products[id] =
                       [name |-> b.name, price |-> b.price.val, stock |-> b.stock.val]
                 /\ \A o \in DOMAIN P \ {id} : out.products[o] = P[o]

\* a catalog request rewrote a product in this step
ProductRewritten ==
    /\ started' = started + 1
    /\ DOMAIN products' = DOMAIN products
    /\ products' # products

\* C8: in every reachable store, update with valid fields answers 404 and changes
\* nothing when the id is unknown, and otherwise sets name, price and stock of that
\* product alone; with invalid fields it answers 400 and changes nothing; the step
\* that rewrites a product changes one product and no cart line.
C8_Update ==
    [][/\ products' # products => UpdateContract(products) /\ UpdateContract(products')
       /\ ProductRewritten =>
             /\ cart' = cart
             /\ Cardinality({o \in DOMAIN products : products'[o] # products[o]}) = 1]_vars

\* C8 witness: Product A was updated to the valid body, Product B is as seeded, and
\* the cart holds a line.
C8_Witness ==
    /\ 1 \in DOMAIN products /\ 2 \in DOMAIN products
    /\ products[1] = [name |-> "N", price |-> 5, stock |-> 1]
    /\ products[2] = dummyProducts[2]
    /\ Len(cart) >= 1

\* no request is in flight
Quiet == \A s \in Slots : ~InFlight(s)
\* every seeded product's stock is its seeded stock minus the quantities of the
\* lines the checkouts removed
Conserved ==
    \A p \in DOMAIN dummyProducts :
        p \in DOMAIN products /\ products[p].stock = dummyProducts[p].stock - settled[p]

\* C9 as stated: with no catalog write, no failed checkout and no POST /cart in
\* flight beside a checkout, whenever the requests have all finished the stock is
\* conserved, however the checkouts interleaved.
C9_Original == (Quiet /\ hist \in {"serial", "overlap"}) => Conserved

\* C9 amended: the same, for checkouts that were never in flight together.
C9_ConservedSerial == (Quiet /\ hist = "serial") => Conserved

\* C9 witness: a checkout served on its own settled a line of 30 on Product A.
C9_Witness ==
    /\ Quiet
    /\ hist = "serial"
    /\ settled[1] = 30
    /\ products[1].stock = 70

\* the cart lines the step removes
Removed == Range(cart) \ Range(cart')

\* C10 as stated: the bulk delete of a successful checkout removes only lines the
\* checkout fetched and decremented.
C10_Original ==
    [][\A r \in Slots :
        (Ends(r, "clear") /\ \A l \in Range(cart) : WellFormed(l)) =>
            Removed \subseteq Range(req[r].items)]_vars

\* C10 amended: a successful checkout that ran alone removes exactly the lines it
\* fetched and decremented.
C10_RemovesFetchedAlone ==
    [][\A r \in Slots :
        (Ends(r, "clear") /\ req[r].alone) => Removed = Range(req[r].items)]_vars

\* C10 witness: a checkout served on its own removed the two lines of its user and
\* left the line of the other user.
C10_Witness ==
    /\ last = [op |-> "purchase", resp |-> "200"]
    /\ hist = "serial"
    /\ nextCartId = 4
    /\ Len(cart) = 1
====
